---------------------------- MODULE Spec2Model ----------------------------
(***************************************************************************)
(* Order lifecycle and stock handling of the e-commerce backend:           *)
(*   backend/routes/orders.js    create, view, status update, cancel       *)
(*   backend/routes/payments.js  payment verification (lines 293-396 of    *)
(*                               src/backend/routes/products.js, whose     *)
(*                               line numbers are the ones quoted)         *)
(* Each request handler is one action that runs the handler to completion. *)
(* products and orders are the two collections of the database; the last   *)
(* request and its response are kept in req and res, the JSON payload of   *)
(* the response in payload.  imageUrl is the imageUrl field of the         *)
(* products and uploads the files of public/uploads.  inflight holds the   *)
(* handlers that run step by step in the specifications of concurrent      *)
(* requests.                                                               *)
(***************************************************************************)
EXTENDS Integers, Sequences, FiniteSets, TLC

VARIABLES products, orders, req, res, payload, imageUrl, uploads, inflight

vars == <<products, orders, req, res, payload, imageUrl, uploads, inflight>>

---------------------------------------------------------------------------
(* Bounds of the model *)

MaxOrders == 1
MaxItems == 2
MaxQty == 2
MaxStock == 2
MaxRestores == 2
MaxRaceOrders == 2

---------------------------------------------------------------------------
(* JavaScript values *)

\* a request field that was left out
Undefined == [def |-> FALSE]
Some(v) == [def |-> TRUE, val |-> v]

\* strings that the code inspects are sequences of characters
Str_cod == <<"c", "o", "d">>
Str_COD == <<"C", "O", "D">>
Str_card == <<"c", "a", "r", "d">>
Str_empty == <<>>
Str_Razorpay == <<"R", "a", "z", "o", "r", "p", "a", "y">>

LowerChar(c) ==
  CASE c = "C" -> "c"
    [] c = "O" -> "o"
    [] c = "D" -> "d"
    [] c = "R" -> "r"
    [] OTHER -> c

\* String.prototype.toLowerCase
ToLowerCase(s) == [i \in 1..Len(s) |-> LowerChar(s[i])]

\* order_id of a verify request that names no local order
NoOrderId == 0

---------------------------------------------------------------------------
(* Entities *)

ProductIds == {"p1", "p2"}
Prices == {100, 30}

\* req.user: identity and role as resolved by the authenticate middleware
Users == { [id |-> "u1", role |-> "user"],
           [id |-> "u2", role |-> "user"],
           [id |-> "a1", role |-> "admin"] }

Statuses == {"pending", "processing", "shipped", "delivered", "cancelled"}

\* status of a new Order document
DefaultStatus == "pending"

\* ids a request may name: the last one never exists
RequestOrderIds == 1..(MaxOrders + 1)

OrderExists(id) == id \in DOMAIN orders

LastOrder(os) == os[Len(os)]

\* a product's imageUrl is a prefix and the rest of the URL
NoUrl == <<"", "">>
ExternalUrl == <<"https://", "img/0.png">>

\* the handlers that run step by step
Slots == {1, 2}
Idle == [op |-> "idle"]

---------------------------------------------------------------------------
(* Responses *)

Response(code, err) == [code |-> code, err |-> err]

Ok == Response(200, "none")
Created == Response(201, "none")
ValidationError == Response(400, "ValidationError")
InsufficientStock == Response(400, "InsufficientStock")
InvalidState == Response(400, "InvalidState")
VerificationFailed == Response(400, "VerificationFailed")
Forbidden == Response(403, "Forbidden")
NotFound == Response(404, "NotFound")
UnexpectedError == Response(500, "UnexpectedError")

\* the payload of an error response: { message }
ErrorBody(r) == [message |-> r.err]

\* the payload of the responses that send the order: res.json(order)
OrderBody(order) == [order |-> order]

---------------------------------------------------------------------------
(* Create order: router.post('/') of orders.js *)

\* the surcharge of line 97
CodFeeAmount == 50

\* mutant: only an empty stock is refused
HasStock_AnyLeft(product, quantity) == product.stock > 0

\* line 75 negated: the item can be served from the product's stock
HasStock(product, quantity) == ~(product.stock < quantity)

\* line 79
ItemPrice(product, quantity) == product.price * quantity

\* lines 82-88 (size and color are passed through and not modelled)
OrderItem(item, product) ==
  [product |-> item.product, quantity |-> item.quantity, price |-> product.price]

\* line 91
DeductStock(stock, quantity) == stock - quantity

\* the result of the loop of lines 68-93: the error it returned with, if any,
\* the index of the item it stopped at, and what it had done by then
LoopResult(err, at, prods, total, orderItems) ==
  [err |-> err, at |-> at, products |-> prods,
   totalAmount |-> total, orderItems |-> orderItems]

RECURSIVE ProcessItems(_, _, _, _, _)
ProcessItems(items, i, prods, total, orderItems) ==
  IF i > Len(items)
  THEN LoopResult(Ok, i, prods, total, orderItems)
  ELSE LET item == items[i]
           product == prods[item.product]
       IN IF ~product.exists
          THEN LoopResult(NotFound, i, prods, total, orderItems)
          ELSE IF ~HasStock(product, item.quantity)
          THEN LoopResult(InsufficientStock, i, prods, total, orderItems)
          ELSE ProcessItems(items, i + 1,
                 [prods EXCEPT ![item.product].stock =
                                   DeductStock(@, item.quantity)],
                 total + ItemPrice(product, item.quantity),
                 Append(orderItems, OrderItem(item, product)))

\* mutant: the method is compared as it was sent
CodFee_CaseSensitive(paymentMethod) ==
  IF paymentMethod = Str_cod THEN CodFeeAmount ELSE 0

\* lines 96-98, for a payment method that is a string
CodFee(paymentMethod) ==
  IF ToLowerCase(paymentMethod) = Str_cod THEN CodFeeAmount ELSE 0

\* line 106: paymentMethod || 'Razorpay'
MethodOrDefault(paymentMethod) ==
  IF ~paymentMethod.def \/ paymentMethod.val = Str_empty
  THEN Str_Razorpay
  ELSE paymentMethod.val

\* lines 100-108
NewOrder(user, orderItems, totalAmount, paymentMethod) ==
  [user |-> user.id,
   items |-> orderItems,
   totalAmount |-> totalAmount,
   paymentInfo |-> [method |-> MethodOrDefault(paymentMethod),
                    id |-> Undefined, status |-> Undefined],
   status |-> DefaultStatus,
   cancellationReason |-> Undefined,
   restores |-> 0]

ItemInputs == [product : ProductIds, quantity : 1..MaxQty]
ItemSeqs == UNION { [1..n -> ItemInputs] : n \in 0..MaxItems }
PaymentMethods ==
  {Undefined, Some(Str_cod), Some(Str_COD), Some(Str_card), Some(Str_empty)}

\* the request would be answered with the created order
CreateSucceeds(items, paymentMethod) ==
  /\ Len(items) > 0
  /\ ProcessItems(items, 1, products, 0, <<>>).err = Ok
  /\ paymentMethod.def

CreateOrder(user, items, paymentMethod) ==
  /\ CreateSucceeds(items, paymentMethod) => Len(orders) < MaxOrders
  /\ req' = [op |-> "create", user |-> user, items |-> items,
             paymentMethod |-> paymentMethod]
  /\ IF Len(items) = 0
     THEN \* lines 60-62
          /\ res' = ValidationError
          /\ UNCHANGED <<products, orders>>
     ELSE LET r == ProcessItems(items, 1, products, 0, <<>>) IN
          /\ products' = r.products
          /\ IF r.err # Ok
             THEN \* lines 72 and 76: the saves of line 92 are not undone
                  /\ res' = r.err
                  /\ UNCHANGED orders
             ELSE IF ~paymentMethod.def
             THEN \* line 96 throws a TypeError, caught at line 113
                  /\ res' = UnexpectedError
                  /\ UNCHANGED orders
             ELSE /\ orders' = Append(orders,
                        NewOrder(user, r.orderItems,
                                 r.totalAmount + CodFee(paymentMethod.val),
                                 paymentMethod))
                  /\ res' = Created

---------------------------------------------------------------------------
(* View order: router.get('/:id') of orders.js *)

\* mutant: the owner comparison is inverted
IsAdminOrOwner_Inverted(user, order) ==
  ~(user.role # "admin" /\ order.user = user.id)

\* lines 45 and 154 negated: the requester is an admin or the order's owner
IsAdminOrOwner(user, order) ==
  ~(user.role # "admin" /\ order.user # user.id)

GetOrder(user, id) ==
  /\ req' = [op |-> "get", user |-> user, id |-> id]
  /\ res' = IF ~OrderExists(id) THEN NotFound
            ELSE IF ~IsAdminOrOwner(user, orders[id]) THEN Forbidden
            ELSE Ok
  /\ UNCHANGED <<products, orders>>

---------------------------------------------------------------------------
(* Update order status: router.put('/:id/status') of orders.js.  The isAdmin *)
(* middleware lets only admins reach the handler.                            *)

Admins == {u \in Users : u.role = "admin"}

\* mutant: leaving cancelled also drops the reason
SetStatus_ClearsReason(order, status) ==
  [order EXCEPT !.status = status,
                !.cancellationReason =
                   IF status = "cancelled" THEN @ ELSE Undefined]

\* line 129
SetStatus(order, status) == [order EXCEPT !.status = status]

UpdateStatus(user, id, status) ==
  /\ req' = [op |-> "status", user |-> user, id |-> id, status |-> status]
  /\ IF ~OrderExists(id)
     THEN /\ res' = NotFound
          /\ UNCHANGED orders
     ELSE /\ orders' = [orders EXCEPT ![id] = SetStatus(@, status)]
          /\ res' = Ok
  /\ UNCHANGED products

---------------------------------------------------------------------------
(* Cancel order: router.put('/:id/cancel') of orders.js *)

\* line 143: !reason holds of a missing and of an empty reason
ReasonGiven(reason) == reason.def /\ reason.val # ""

\* mutants: one of the two terminal statuses is left out
Cancellable_OnlyDelivered(status) == status \notin {"delivered"}
Cancellable_OnlyCancelled(status) == status \notin {"cancelled"}

\* line 159 negated
Cancellable(status) == status \notin {"delivered", "cancelled"}

\* line 169
RestoreStock(stock, quantity) == stock + quantity

\* mutant: the loop ends at the first item whose product is gone
RECURSIVE RestoreItems_StopAtMissing(_, _, _)
RestoreItems_StopAtMissing(items, i, prods) ==
  IF i > Len(items) \/ ~prods[items[i].product].exists
  THEN prods
  ELSE RestoreItems_StopAtMissing(items, i + 1,
         [prods EXCEPT ![items[i].product].stock = @ + items[i].quantity])

\* lines 166-172
RECURSIVE RestoreItems(_, _, _)
RestoreItems(items, i, prods) ==
  IF i > Len(items)
  THEN prods
  ELSE LET item == items[i]
           product == prods[item.product]
       IN RestoreItems(items, i + 1,
            IF product.exists
            THEN [prods EXCEPT ![item.product].stock =
                                  RestoreStock(@, item.quantity)]
            ELSE prods)

\* mutant: a cancelled order is refunded in place
Cancelled_Refunded(order, reason) ==
  [order EXCEPT !.status = "cancelled",
                !.cancellationReason = reason,
                !.totalAmount = 0,
                !.restores = @ + 1]

\* lines 174-175; restores counts the runs of the loop of lines 166-172
\* for this order
Cancelled(order, reason) ==
  [order EXCEPT !.status = "cancelled",
                !.cancellationReason = reason,
                !.restores = @ + 1]

\* mutant: the status is checked before the requester
CancelCheck_StatusBeforeRequester(user, id, reason) ==
  IF ~ReasonGiven(reason) THEN ValidationError
  ELSE IF ~OrderExists(id) THEN NotFound
  ELSE IF ~Cancellable(orders[id].status) THEN InvalidState
  ELSE IF ~IsAdminOrOwner(user, orders[id]) THEN Forbidden
  ELSE Ok

\* the response of the checks of lines 143-163, Ok when all of them pass
CancelCheck(user, id, reason) ==
  IF ~ReasonGiven(reason) THEN ValidationError
  ELSE IF ~OrderExists(id) THEN NotFound
  ELSE IF ~IsAdminOrOwner(user, orders[id]) THEN Forbidden
  ELSE IF ~Cancellable(orders[id].status) THEN InvalidState
  ELSE Ok

Reasons == {Undefined, Some(""), Some("changed my mind")}

CancelOrder(user, id, reason) ==
  LET check == CancelCheck(user, id, reason) IN
  /\ check = Ok => orders[id].restores < MaxRestores
  /\ req' = [op |-> "cancel", user |-> user, id |-> id, reason |-> reason]
  /\ res' = check
  /\ IF check # Ok
     THEN UNCHANGED <<products, orders>>
     ELSE /\ products' = RestoreItems(orders[id].items, 1, products)
          /\ orders' = [orders EXCEPT ![id] = Cancelled(@, reason)]

---------------------------------------------------------------------------
(* Verify payment: router.post('/verify') of payments.js *)

\* process.env.RAZORPAY_KEY_SECRET || 'your_test_secret_key', line 350
KeySecret == "key_secret"
OtherSecret == "not_the_key_secret"

\* line 348
SignedBody(razorpay_order_id, razorpay_payment_id) ==
  <<razorpay_order_id, "|", razorpay_payment_id>>

\* lines 349-352: the HMAC-SHA256 hex digest, as a term over its key and its
\* message; two digests are equal iff key and message are
Hmac(secret, body) == Some(<<"hmac-sha256", secret, body>>)

ExpectedSignature(razorpay_order_id, razorpay_payment_id) ==
  Hmac(KeySecret, SignedBody(razorpay_order_id, razorpay_payment_id))

\* mutant: the signature is only required to be present
IsAuthentic_Present(expectedSignature, razorpay_signature) ==
  razorpay_signature.def

\* line 358
IsAuthentic(expectedSignature, razorpay_signature) ==
  expectedSignature = razorpay_signature

\* lines 370-375
Paid(order, razorpay_payment_id) ==
  [order EXCEPT !.paymentInfo = [id |-> Some(razorpay_payment_id),
                                 status |-> Some("completed"),
                                 method |-> Str_Razorpay],
                !.status = "processing"]

GatewayOrderIds == {"order_A", "order_B"}
PaymentIds == {"pay_1"}
\* the signatures a caller may send: none, the gateway's for some payment,
\* and one made with another key
Signatures ==
  {Undefined}
    \cup { Hmac(KeySecret, SignedBody(o, p)) :
             o \in GatewayOrderIds, p \in PaymentIds }
    \cup { Hmac(OtherSecret, SignedBody("order_A", "pay_1")) }

VerifyPayment(razorpay_order_id, razorpay_payment_id, razorpay_signature, order_id) ==
  /\ req' = [op |-> "verify",
             razorpay_order_id |-> razorpay_order_id,
             razorpay_payment_id |-> razorpay_payment_id,
             razorpay_signature |-> razorpay_signature,
             order_id |-> order_id]
  /\ UNCHANGED products
  /\ IF ~razorpay_order_id.def \/ ~razorpay_payment_id.def \/ ~razorpay_signature.def
     THEN \* lines 343-345
          /\ res' = ValidationError
          /\ UNCHANGED orders
     ELSE IF ~IsAuthentic(ExpectedSignature(razorpay_order_id.val,
                                            razorpay_payment_id.val),
                          razorpay_signature)
     THEN \* lines 360-363
          /\ res' = VerificationFailed
          /\ UNCHANGED orders
     ELSE /\ res' = Ok
          /\ IF order_id # NoOrderId /\ OrderExists(order_id)
             THEN orders' = [orders EXCEPT ![order_id] =
                                Paid(@, razorpay_payment_id.val)]
             ELSE UNCHANGED orders

\* mutant: the two gateway ids are echoed in each other's place
VerifyBody_Swapped(razorpay_order_id, razorpay_payment_id) ==
  IF res' = Ok
  THEN [success |-> TRUE, orderId |-> razorpay_payment_id.val,
        paymentId |-> razorpay_order_id.val]
  ELSE ErrorBody(res')

\* the payload of the response to a verify request: lines 384-389 after a
\* verified signature, the message of lines 344 and 362 otherwise
VerifyBody(razorpay_order_id, razorpay_payment_id) ==
  IF res' = Ok
  THEN [success |-> TRUE, orderId |-> razorpay_order_id.val,
        paymentId |-> razorpay_payment_id.val]
  ELSE ErrorBody(res')

---------------------------------------------------------------------------
(* Products: router.post('/'), router.put('/:id') and router.delete('/:id')  *)
(* of products.js.  upload.single('image') stores the file of the request in *)
(* public/uploads before the handler runs.                                   *)

\* lines 101 and 149
UploadUrl(file) == <<"/uploads/", file>>

\* lines 152 and 195: imageUrl && imageUrl.startsWith('/uploads/')
IsUploaded(url) == url # NoUrl /\ url[1] = "/uploads/"

\* lines 153-156 and 196-199: the file of the URL is removed if it is there
Unlink(files, url) == files \ {url[2]}

\* the files after the image of a product with imageUrl url was dropped
DeleteOldImage(files, url) == IF IsUploaded(url) THEN Unlink(files, url) ELSE files

\* line 28: a uuid names the stored file; it names no other file
FileNames == {"f1", "f2"}
FreshFiles == {f \in FileNames : f \notin uploads
                                /\ \A p \in ProductIds : imageUrl[p] # UploadUrl(f)}

\* the files after multer stored the file of the request, if it has one
Stored(file) == IF file.def THEN uploads \cup {file.val} ELSE uploads

\* Number(x) of a field that was sent, the old value otherwise: lines 169, 172
NumberOr(field, old) == IF field.def THEN field.val ELSE old

CreateProduct(id, file, url, price, stock) ==
  /\ ~products[id].exists
  /\ file.def => file.val \in FreshFiles
  /\ req' = [op |-> "productCreate", id |-> id, file |-> file, imageUrl |-> url,
             price |-> price, stock |-> stock]
  /\ uploads' = Stored(file)
  /\ IF ~file.def /\ ~url.def
     THEN \* line 106
          /\ res' = ValidationError
          /\ UNCHANGED <<products, imageUrl>>
     ELSE /\ imageUrl' = [imageUrl EXCEPT ![id] =
                             IF file.def THEN UploadUrl(file.val) ELSE url.val]
          /\ products' = [products EXCEPT ![id] =
                             [exists |-> TRUE, price |-> price, stock |-> stock]]
          /\ res' = Created

\* lines 145-161: the imageUrl of the product after the update
UpdatedImageUrl(old, file, url) ==
  IF file.def THEN UploadUrl(file.val)
  ELSE IF url.def /\ url.val # old THEN url.val
  ELSE old

\* lines 147-157: the old image is removed when a new file was uploaded
FilesAfterUpdate(files, old, file, url) ==
  IF file.def THEN DeleteOldImage(files, old) ELSE files

UpdateProduct(id, file, url, price, stock) ==
  /\ file.def => file.val \in FreshFiles
  /\ req' = [op |-> "productUpdate", id |-> id, file |-> file, imageUrl |-> url,
             price |-> price, stock |-> stock]
  /\ IF ~products[id].exists
     THEN \* lines 140-142
          /\ res' = NotFound
          /\ uploads' = Stored(file)
          /\ UNCHANGED <<products, imageUrl>>
     ELSE /\ uploads' = FilesAfterUpdate(Stored(file), imageUrl[id], file, url)
          /\ imageUrl' = [imageUrl EXCEPT ![id] = UpdatedImageUrl(@, file, url)]
          /\ products' = [products EXCEPT
                             ![id].price = NumberOr(price, @),
                             ![id].stock = NumberOr(stock, @)]
          /\ res' = Ok

DeleteProduct(id) ==
  /\ req' = [op |-> "productDelete", id |-> id]
  /\ IF ~products[id].exists
     THEN \* lines 190-192
          /\ res' = NotFound
          /\ UNCHANGED <<products, imageUrl, uploads>>
     ELSE /\ uploads' = DeleteOldImage(uploads, imageUrl[id])
          /\ products' = [products EXCEPT ![id].exists = FALSE]
          /\ imageUrl' = [imageUrl EXCEPT ![id] = NoUrl]
          /\ res' = Ok

\* lines 126, 178 and 203 of products.js
ProductBody(id) ==
  IF res' \in {Ok, Created}
  THEN IF req'.op = "productDelete"
       THEN [message |-> "Product removed"]
       ELSE [product |-> products'[id], imageUrl |-> imageUrl'[id]]
  ELSE ErrorBody(res')

---------------------------------------------------------------------------
\* p1 is in the catalog; p2 may be a product id that names no product
Init ==
  /\ products \in [ProductIds -> [exists : BOOLEAN, price : Prices,
                                  stock : {0, MaxStock}]]
  /\ products["p1"] = [exists |-> TRUE, price |-> 100, stock |-> MaxStock]
  /\ products["p2"].price = 30
  /\ products["p2"].stock = IF products["p2"].exists THEN MaxStock ELSE 0
  /\ orders = <<>>
  /\ req = [op |-> "none"]
  /\ res = Ok
  /\ payload = [message |-> "none"]
  /\ imageUrl = [p \in ProductIds |-> IF products[p].exists THEN ExternalUrl ELSE NoUrl]
  /\ uploads = {}
  /\ inflight = [s \in Slots |-> Idle]

\* what the requests that run to completion leave alone
Others == <<imageUrl, uploads, inflight>>

\* the user who places the orders
Customer == [id |-> "u1", role |-> "user"]

\* the requests of the lifecycle specification order single units and pay
\* cash on delivery
UnitItemSeqs == {items \in ItemSeqs : \A i \in DOMAIN items : items[i].quantity = 1}

\* lines 112 and 114 of orders.js
CreateBody == IF res' = Created THEN OrderBody(LastOrder(orders')) ELSE ErrorBody(res')

\* lines 49, 132 and 178 of orders.js
OrderOrErrorBody(id) == IF res' = Ok THEN OrderBody(orders'[id]) ELSE ErrorBody(res')

PlaceOrder ==
  \E items \in UnitItemSeqs :
     /\ CreateOrder(Customer, items, Some(Str_cod))
     /\ payload' = CreateBody
     /\ UNCHANGED Others

View ==
  \E user \in Users, id \in RequestOrderIds :
     /\ GetOrder(user, id)
     /\ payload' = OrderOrErrorBody(id)
     /\ UNCHANGED Others

AdminStatus ==
  \E user \in Admins, id \in RequestOrderIds, status \in Statuses :
     /\ UpdateStatus(user, id, status)
     /\ payload' = OrderOrErrorBody(id)
     /\ UNCHANGED Others

Cancel ==
  \E user \in Users, id \in RequestOrderIds, reason \in Reasons :
     /\ CancelOrder(user, id, reason)
     /\ payload' = OrderOrErrorBody(id)
     /\ UNCHANGED Others

Verify ==
  \E o \in GatewayOrderIds, p \in PaymentIds, s \in Signatures,
     id \in {NoOrderId} \cup RequestOrderIds :
     /\ VerifyPayment(Some(o), Some(p), s, id)
     /\ payload' = VerifyBody(Some(o), Some(p))
     /\ UNCHANGED Others

Next ==
  \/ PlaceOrder
  \/ View
  \/ AdminStatus
  \/ Cancel
  \/ Verify

\* every handler of the order lifecycle, each request run to completion
Spec == Init /\ [][Next]_vars

Checkout ==
  \E items \in ItemSeqs, paymentMethod \in PaymentMethods :
     /\ CreateOrder(Customer, items, paymentMethod)
     /\ payload' = CreateBody
     /\ UNCHANGED Others

NextCreate ==
  \/ Checkout

\* create-order requests alone, over every item sequence and payment method
SpecCreate == Init /\ [][NextCreate]_vars

\* the requests of the catalog specification: orders of single units, the
\* owner's cancellations, shipments and deliveries, verified payments,
\* new prices and product deletions
CatalogCancel ==
  \E id \in 1..MaxOrders :
     /\ CancelOrder(Customer, id, Some("changed my mind"))
     /\ payload' = OrderOrErrorBody(id)
     /\ UNCHANGED Others

CatalogStatus ==
  \E user \in Admins, id \in 1..MaxOrders, status \in {"shipped", "delivered"} :
     /\ UpdateStatus(user, id, status)
     /\ payload' = OrderOrErrorBody(id)
     /\ UNCHANGED Others

CatalogVerify ==
  \E id \in 1..MaxOrders :
     /\ VerifyPayment(Some("order_A"), Some("pay_1"),
                      ExpectedSignature("order_A", "pay_1"), id)
     /\ payload' = VerifyBody(Some("order_A"), Some("pay_1"))
     /\ UNCHANGED Others

Reprice ==
  \E id \in ProductIds, price \in Prices :
     /\ UpdateProduct(id, Undefined, Undefined, Some(price), Undefined)
     /\ payload' = ProductBody(id)
     /\ UNCHANGED <<orders, inflight>>

RemoveProduct ==
  \E id \in ProductIds :
     /\ DeleteProduct(id)
     /\ payload' = ProductBody(id)
     /\ UNCHANGED <<orders, inflight>>

NextCatalog ==
  \/ PlaceOrder
  \/ CatalogCancel
  \/ CatalogStatus
  \/ CatalogVerify
  \/ Reprice
  \/ RemoveProduct

\* the order lifecycle beside an admin who reprices and deletes products
SpecCatalog == Init /\ [][NextCatalog]_vars

\* the image of a product request: a file to upload, an image URL, or neither
OtherUrl == <<"https://", "img/1.png">>
ImageUrls == {Undefined, Some(ExternalUrl), Some(OtherUrl)}
Files == {Undefined} \cup {Some(f) : f \in FreshFiles}

AddProduct ==
  \E id \in ProductIds, file \in Files, url \in ImageUrls, price \in Prices :
     /\ CreateProduct(id, file, url, price, MaxStock)
     /\ payload' = ProductBody(id)
     /\ UNCHANGED <<orders, inflight>>

EditProduct ==
  \E id \in ProductIds, file \in Files, url \in ImageUrls :
     /\ UpdateProduct(id, file, url, Undefined, Undefined)
     /\ payload' = ProductBody(id)
     /\ UNCHANGED <<orders, inflight>>

NextAssets ==
  \/ AddProduct
  \/ EditProduct
  \/ RemoveProduct

\* the admin's product requests and the uploaded files they store and remove
SpecAssets == Init /\ [][NextAssets]_vars

---------------------------------------------------------------------------
(* The create and cancel handlers of orders.js, one step for each await: the *)
(* requests of the slots of inflight run at the same time, and a step of one *)
(* may fall between a read and a save of the other.  A slot keeps the local  *)
(* variables of its handler; product is the document of the last findById.   *)

InFlight(op) == {s \in Slots : inflight[s].op = op}

\* the step answers the request of slot s
Respond(s, request, response, body) ==
  /\ inflight' = [inflight EXCEPT ![s] = Idle]
  /\ req' = request
  /\ res' = response
  /\ payload' = body

\* the step does not answer
NoResponse == UNCHANGED <<req, res, payload>>

CreateRequest(slot) ==
  [op |-> "create", user |-> slot.user, items |-> slot.items,
   paymentMethod |-> slot.paymentMethod]

CancelRequest(slot) ==
  [op |-> "cancel", user |-> slot.user, id |-> slot.id, reason |-> slot.reason]

\* the slot after the item at i: the loop goes on with the next findById, or
\* the handler goes on to save the order
AfterItem(slot, items) ==
  [slot EXCEPT !.i = @ + 1,
               !.pc = IF slot.i + 1 > Len(items) THEN "order" ELSE "find"]

\* mutant: the quantity is taken from the stock that is stored
SavedStock_Atomic(stored, read, quantity) == DeductStock(stored, quantity)

\* lines 91-92: the stock that product.save() stores is computed on the
\* document read at line 69; the stock stored by then is overwritten
SavedStock(stored, read, quantity) == DeductStock(read, quantity)

\* lines 57-66
CreateBegin(s, user, items, paymentMethod) ==
  /\ inflight[s] = Idle
  /\ Len(orders) + Cardinality(InFlight("create")) < MaxRaceOrders
  /\ LET slot == [op |-> "create", pc |-> "find", user |-> user, items |-> items,
                  paymentMethod |-> paymentMethod, i |-> 1,
                  product |-> products[CHOOSE p \in ProductIds : TRUE],
                  totalAmount |-> 0, orderItems |-> <<>>]
     IN IF Len(items) = 0
        THEN Respond(s, CreateRequest(slot), ValidationError,
                     ErrorBody(ValidationError))
        ELSE /\ inflight' = [inflight EXCEPT ![s] = slot]
             /\ NoResponse
  /\ UNCHANGED <<products, orders>>

\* lines 69-88: findById and the checks and the snapshot of the item
CreateFindProduct(s) ==
  LET slot == inflight[s] IN
  /\ slot.op = "create"
  /\ slot.pc = "find"
  /\ LET item == slot.items[slot.i]
         product == products[item.product]
     IN IF ~product.exists
        THEN Respond(s, CreateRequest(slot), NotFound, ErrorBody(NotFound))
        ELSE IF ~HasStock(product, item.quantity)
        THEN Respond(s, CreateRequest(slot), InsufficientStock,
                     ErrorBody(InsufficientStock))
        ELSE /\ inflight' = [inflight EXCEPT ![s] =
                  [slot EXCEPT !.pc = "save",
                               !.product = product,
                               !.totalAmount = @ + ItemPrice(product, item.quantity),
                               !.orderItems = Append(@, OrderItem(item, product))]]
             /\ NoResponse
  /\ UNCHANGED <<products, orders>>

\* lines 91-92
CreateSaveProduct(s) ==
  LET slot == inflight[s] IN
  /\ slot.op = "create"
  /\ slot.pc = "save"
  /\ LET item == slot.items[slot.i] IN
     products' = [products EXCEPT ![item.product].stock =
                    SavedStock(@, slot.product.stock, item.quantity)]
  /\ inflight' = [inflight EXCEPT ![s] = AfterItem(slot, slot.items)]
  /\ NoResponse
  /\ UNCHANGED orders

\* lines 96-112
CreateSaveOrder(s) ==
  LET slot == inflight[s] IN
  /\ slot.op = "create"
  /\ slot.pc = "order"
  /\ IF ~slot.paymentMethod.def
     THEN /\ Respond(s, CreateRequest(slot), UnexpectedError,
                     ErrorBody(UnexpectedError))
          /\ UNCHANGED orders
     ELSE LET order == NewOrder(slot.user, slot.orderItems,
                         slot.totalAmount + CodFee(slot.paymentMethod.val),
                         slot.paymentMethod)
          IN /\ orders' = Append(orders, order)
             /\ Respond(s, CreateRequest(slot), Created, OrderBody(order))
  /\ UNCHANGED products

\* lines 141-163: the checks, on the order that findById reads at line 147
CancelFindOrder(s, user, id, reason) ==
  LET check == CancelCheck(user, id, reason)
      slot == [op |-> "cancel", pc |-> "find", user |-> user, id |-> id,
               reason |-> reason, i |-> 1,
               order |-> IF OrderExists(id) THEN orders[id] ELSE <<>>,
               product |-> products[CHOOSE p \in ProductIds : TRUE]]
  IN
  /\ inflight[s] = Idle
  /\ check = Ok => orders[id].restores < MaxRestores
  /\ IF check # Ok
     THEN Respond(s, CancelRequest(slot), check, ErrorBody(check))
     ELSE /\ inflight' = [inflight EXCEPT ![s] = slot]
          /\ NoResponse
  /\ UNCHANGED <<products, orders>>

\* lines 167-168
CancelFindProduct(s) ==
  LET slot == inflight[s] IN
  /\ slot.op = "cancel"
  /\ slot.pc = "find"
  /\ LET product == products[slot.order.items[slot.i].product] IN
     inflight' = [inflight EXCEPT ![s] =
                    IF product.exists
                    THEN [slot EXCEPT !.pc = "save", !.product = product]
                    ELSE AfterItem(slot, slot.order.items)]
  /\ NoResponse
  /\ UNCHANGED <<products, orders>>

\* lines 169-170
CancelSaveProduct(s) ==
  LET slot == inflight[s] IN
  /\ slot.op = "cancel"
  /\ slot.pc = "save"
  /\ LET item == slot.order.items[slot.i] IN
     products' = [products EXCEPT ![item.product].stock =
                    RestoreStock(slot.product.stock, item.quantity)]
  /\ inflight' = [inflight EXCEPT ![s] = AfterItem(slot, slot.order.items)]
  /\ NoResponse
  /\ UNCHANGED orders

\* lines 174-178: order.save() stores the status and the reason set on the
\* document read at line 147
CancelSaveOrder(s) ==
  LET slot == inflight[s] IN
  /\ slot.op = "cancel"
  /\ slot.pc = "order"
  /\ orders' = [orders EXCEPT ![slot.id] = Cancelled(@, slot.reason)]
  /\ Respond(s, CancelRequest(slot), Ok,
             OrderBody(Cancelled(slot.order, slot.reason)))
  /\ UNCHANGED products

\* the requests of the concurrent specification: orders of one item or of
\* single units, paid cash on delivery, and the owner's cancellations
RaceItemSeqs == {items \in ItemSeqs : Len(items) <= 1 \/ items \in UnitItemSeqs}

BeginCreate ==
  \E s \in Slots, items \in RaceItemSeqs :
     /\ CreateBegin(s, Customer, items, Some(Str_cod))
     /\ UNCHANGED <<imageUrl, uploads>>

FindProductForCreate ==
  \E s \in Slots : CreateFindProduct(s) /\ UNCHANGED <<imageUrl, uploads>>

SaveProductForCreate ==
  \E s \in Slots : CreateSaveProduct(s) /\ UNCHANGED <<imageUrl, uploads>>

SaveCreatedOrder ==
  \E s \in Slots : CreateSaveOrder(s) /\ UNCHANGED <<imageUrl, uploads>>

BeginCancel ==
  \E s \in Slots, id \in 1..MaxRaceOrders :
     /\ CancelFindOrder(s, Customer, id, Some("changed my mind"))
     /\ UNCHANGED <<imageUrl, uploads>>

FindProductForCancel ==
  \E s \in Slots : CancelFindProduct(s) /\ UNCHANGED <<imageUrl, uploads>>

SaveProductForCancel ==
  \E s \in Slots : CancelSaveProduct(s) /\ UNCHANGED <<imageUrl, uploads>>

SaveCancelledOrder ==
  \E s \in Slots : CancelSaveOrder(s) /\ UNCHANGED <<imageUrl, uploads>>

NextRace ==
  \/ BeginCreate
  \/ FindProductForCreate
  \/ SaveProductForCreate
  \/ SaveCreatedOrder
  \/ BeginCancel
  \/ FindProductForCancel
  \/ SaveProductForCancel
  \/ SaveCancelledOrder

\* two requests at a time, each a create or a cancel, interleaved step by step
SpecRace == Init /\ [][NextRace]_vars

---------------------------------------------------------------------------
(* Vocabulary of the properties *)

\* the quantity that the first n items order of product p
RECURSIVE SumQuantity(_, _, _)
SumQuantity(items, p, n) ==
  IF n = 0
  THEN 0
  ELSE SumQuantity(items, p, n - 1)
         + (IF items[n].product = p THEN items[n].quantity ELSE 0)

OrderedQuantity(items, p) == SumQuantity(items, p, Len(items))

\* every product of the sequence exists and has the stock for its item when
\* the item is processed, the earlier items of the sequence being served
Servable(items) ==
  \A i \in DOMAIN items :
     /\ products[items[i].product].exists
     /\ SumQuantity(items, items[i].product, i) <= products[items[i].product].stock

\* the sum of unit price times quantity over the items, at the current prices
RECURSIVE SumPrice(_, _)
SumPrice(items, n) ==
  IF n = 0
  THEN 0
  ELSE SumPrice(items, n - 1) + products[items[n].product].price * items[n].quantity

\* the spellings of "cod"
CodSpellings ==
  { <<a, b, c>> : a \in {"c", "C"}, b \in {"o", "O"}, c \in {"d", "D"} }

Terminal == {"delivered", "cancelled"}

NonEmptyReason(r) == r.def /\ r.val # ""

\* the requester of a request is an admin, or owns the order the request names
AdminOrOwnerOf(user, id) == user.role = "admin" \/ orders[id].user = user.id

---------------------------------------------------------------------------
(* C1: for every order, the quantities deducted at its creation have been    *)
(* added back to the stock exactly once if its status is cancelled, and not  *)
(* at all otherwise.  The code breaks it: the status update sets and unsets  *)
(* cancelled without touching the stock.                                     *)
C1_RestoredOnceIffCancelled ==
  \A id \in DOMAIN orders :
     orders[id].restores = IF orders[id].status = "cancelled" THEN 1 ELSE 0

(* C2: once an order is delivered or cancelled, no step changes its status.  *)
(* The code breaks it: status update and payment verification overwrite any  *)
(* status.                                                                   *)
C2_TerminalStatusStays ==
  [][\A id \in DOMAIN orders :
        orders[id].status \in Terminal => orders'[id].status = orders[id].status]_vars

(* C3: a create-order request whose item sequence is non-empty and servable  *)
(* creates exactly one order and lowers the stock of every product by the    *)
(* total quantity ordered of it (by nothing for a product it does not name). *)
(* The code breaks it for a request without a payment method (see C6): the   *)
(* stock is lowered and no order is created.                                 *)
C3_CreateDeductsOrderedQuantity ==
  [][(/\ req'.op = "create"
      /\ Len(req'.items) > 0
      /\ Servable(req'.items))
     => (/\ Len(orders') = Len(orders) + 1
         /\ \A p \in ProductIds :
               products'[p].stock
                 = products[p].stock - OrderedQuantity(req'.items, p))]_vars

(* C4: the totalAmount of a created order is the sum over its items of the   *)
(* product's unit price at creation times the quantity, plus 50 iff the      *)
(* payment method is "cod" in any letter case; one item of price 100 and     *)
(* quantity 2 paid by "cod" gives 250; every stored item carries the         *)
(* product's current unit price.                                             *)
C4_TotalAmount ==
  [][(req'.op = "create" /\ res' = Created)
     => LET items == req'.items
            method == req'.paymentMethod.val
            order == LastOrder(orders')
        IN /\ Len(orders') = Len(orders) + 1
           /\ Len(order.items) = Len(items)
           /\ \A i \in DOMAIN items :
                 /\ order.items[i].product = items[i].product
                 /\ order.items[i].quantity = items[i].quantity
                 /\ order.items[i].price = products[items[i].product].price
           /\ order.totalAmount
                = SumPrice(items, Len(items))
                    + (IF method \in CodSpellings THEN 50 ELSE 0)
           /\ (/\ Len(items) = 1
               /\ items[1].quantity = 2
               /\ products[items[1].product].price = 100
               /\ method = Str_cod)
              => order.totalAmount = 250]_vars

\* the example of C4, with the method spelled in capitals
C4_Witness ==
  /\ req.op = "create"
  /\ res = Created
  /\ req.paymentMethod = Some(Str_COD)
  /\ Len(orders) = 1
  /\ orders[1].items = <<[product |-> "p1", quantity |-> 2, price |-> 100]>>
  /\ orders[1].totalAmount = 250

\* item k of the sequence is reached and orders more than what is left of its
\* product's stock
ShortAt(items, k) ==
  /\ k \in DOMAIN items
  /\ \A i \in 1..(k - 1) :
        /\ products[items[i].product].exists
        /\ SumQuantity(items, items[i].product, i) <= products[items[i].product].stock
  /\ products[items[k].product].exists
  /\ SumQuantity(items, items[k].product, k) > products[items[k].product].stock

(* C5: a create-order request that reaches an item ordering more than the    *)
(* product's current stock fails with InsufficientStock (400) and persists   *)
(* no order; the stock of every product is what the earlier items of the     *)
(* request left of it: their deductions stay, and neither the failing item   *)
(* nor a later one changes any stock.                                        *)
C5_InsufficientStockKeepsEarlierDeductions ==
  [][req'.op = "create"
     => \A k \in DOMAIN req'.items :
           ShortAt(req'.items, k)
           => /\ res' = InsufficientStock
              /\ res'.code = 400
              /\ orders' = orders
              /\ \A p \in ProductIds :
                    /\ products'[p].stock
                         = products[p].stock - SumQuantity(req'.items, p, k - 1)
                    /\ products'[p].exists = products[p].exists
                    /\ products'[p].price = products[p].price]_vars

\* the first item took all of p1, the second found none left
C5_Witness ==
  /\ req.op = "create"
  /\ req.items = << [product |-> "p1", quantity |-> 2],
                    [product |-> "p1", quantity |-> 1] >>
  /\ res = InsufficientStock
  /\ orders = <<>>
  /\ products["p1"].stock = 0

(* C6: a create-order request without a payment method whose items are all   *)
(* valid and in stock succeeds: a new order is persisted with status pending *)
(* and the default gateway as its paymentInfo.method.  The code breaks it:   *)
(* line 96 calls toLowerCase on the missing method and the request ends 500. *)
C6_OmittedMethodDefaults ==
  [][(/\ req'.op = "create"
      /\ ~req'.paymentMethod.def
      /\ Len(req'.items) > 0
      /\ Servable(req'.items))
     => (/\ res' = Created
         /\ Len(orders') = Len(orders) + 1
         /\ LastOrder(orders').status = "pending"
         /\ LastOrder(orders').paymentInfo.method = Str_Razorpay)]_vars

\* a cancel request with a non-empty reason, by an admin or the owner, for an
\* order that exists
AuthorizedCancel(r) ==
  /\ r.op = "cancel"
  /\ NonEmptyReason(r.reason)
  /\ r.id \in DOMAIN orders
  /\ AdminOrOwnerOf(r.user, r.id)

(* C7: a cancel request by the owner or an admin, with a non-empty reason,   *)
(* for an order that is pending, processing or shipped adds the quantity of  *)
(* every item back to the stock of its product and sets the status to        *)
(* cancelled; such a request for the order that the request before it has    *)
(* just cancelled fails with InvalidState and changes no stock.              *)
C7_CancelRestoresOnce ==
  [][AuthorizedCancel(req')
     => LET id == req'.id IN
        /\ orders[id].status \in {"pending", "processing", "shipped"}
           => /\ res' = Ok
              /\ orders'[id].status = "cancelled"
              /\ \A p \in ProductIds :
                    products'[p].stock
                      = products[p].stock + OrderedQuantity(orders[id].items, p)
        /\ (req.op = "cancel" /\ res = Ok /\ req.id = id)
           => /\ res' = InvalidState
              /\ products' = products
              /\ orders' = orders]_vars

\* the second of two cancel requests for an order of two items
C7_Witness ==
  /\ AuthorizedCancel(req)
  /\ res = InvalidState
  /\ Len(orders[req.id].items) = 2
  /\ orders[req.id].status = "cancelled"
  /\ orders[req.id].restores = 1
  /\ \A p \in ProductIds : products[p].stock = MaxStock

(* C8, as claimed: a cancel request with a non-empty reason for an existing  *)
(* order that is delivered or cancelled fails with InvalidState, whoever     *)
(* sends it.                                                                 *)
C8_InvalidStateForEveryRequester ==
  [][(/\ req'.op = "cancel"
      /\ NonEmptyReason(req'.reason)
      /\ req'.id \in DOMAIN orders
      /\ orders[req'.id].status \in Terminal)
     => res' = InvalidState]_vars

(* C8, amended: a cancel request with a non-empty reason for an existing     *)
(* order that is delivered or cancelled fails with InvalidState for an admin *)
(* and for the owner alike; a requester who is neither is answered Forbidden.*)
(* Either way nothing is changed.                                            *)
C8_InvalidStateForAdminAndOwner ==
  [][(/\ req'.op = "cancel"
      /\ NonEmptyReason(req'.reason)
      /\ req'.id \in DOMAIN orders
      /\ orders[req'.id].status \in Terminal)
     => /\ res' = IF AdminOrOwnerOf(req'.user, req'.id)
                  THEN InvalidState
                  ELSE Forbidden
        /\ res'.code = IF AdminOrOwnerOf(req'.user, req'.id) THEN 400 ELSE 403
        /\ orders' = orders
        /\ products' = products]_vars

\* the owner is refused the cancellation of a delivered order
C8_Witness ==
  /\ AuthorizedCancel(req)
  /\ req.user.role = "user"
  /\ res = InvalidState
  /\ orders[req.id].status = "delivered"

(* C9: a requester who is neither an admin nor the owner of an existing      *)
(* order is answered Forbidden (403) when viewing the order and when         *)
(* cancelling it with a non-empty reason; the order and every product's      *)
(* stock stay as they were.                                                  *)
C9_OthersAreForbidden ==
  [][(/\ req'.op \in {"get", "cancel"}
      /\ req'.id \in DOMAIN orders
      /\ ~AdminOrOwnerOf(req'.user, req'.id)
      /\ req'.op = "cancel" => NonEmptyReason(req'.reason))
     => /\ res' = Forbidden
        /\ res'.code = 403
        /\ orders' = orders
        /\ products' = products]_vars

\* another user tried to cancel a pending order
C9_Witness ==
  /\ req.op = "cancel"
  /\ NonEmptyReason(req.reason)
  /\ req.id \in DOMAIN orders
  /\ ~AdminOrOwnerOf(req.user, req.id)
  /\ res = Forbidden
  /\ orders[req.id].status = "pending"
  /\ orders[req.id].restores = 0

\* the verify request carries the gateway's signature of its two ids
SignatureMatches(r) ==
  /\ r.razorpay_order_id.def
  /\ r.razorpay_payment_id.def
  /\ r.razorpay_signature
       = Hmac(KeySecret, <<r.razorpay_order_id.val, "|", r.razorpay_payment_id.val>>)

(* C10: payment verification changes an order only when the supplied         *)
(* signature is the expected one for the gateway order id and payment id; a  *)
(* supplied signature that differs fails with VerificationFailed and changes *)
(* no order; a matching one with the id of an existing order sets that       *)
(* order's paymentInfo to {id: payment id, status: completed, method:        *)
(* Razorpay} and its status to processing.                                   *)
C10_VerifyNeedsSignature ==
  [][req'.op = "verify"
     => /\ orders' # orders => SignatureMatches(req')
        /\ products' = products
        /\ (req'.razorpay_signature.def /\ ~SignatureMatches(req'))
           => (res' = VerificationFailed /\ orders' = orders)
        /\ (SignatureMatches(req') /\ req'.order_id \in DOMAIN orders)
           => /\ res' = Ok
              /\ orders'[req'.order_id].paymentInfo
                   = [id |-> req'.razorpay_payment_id,
                      status |-> Some("completed"),
                      method |-> Str_Razorpay]
              /\ orders'[req'.order_id].status = "processing"
              /\ \A id \in DOMAIN orders :
                    id # req'.order_id => orders'[id] = orders[id]]_vars

\* a verified payment was recorded on an existing order
C10_Witness ==
  /\ req.op = "verify"
  /\ SignatureMatches(req)
  /\ res = Ok
  /\ req.order_id \in DOMAIN orders
  /\ orders[req.order_id].paymentInfo.status = Some("completed")
  /\ orders[req.order_id].status = "processing"

(* C11: in every reachable state an order has a cancellationReason iff its   *)
(* status is cancelled.  The code breaks it: the status update sets and      *)
(* unsets cancelled, and payment verification unsets it, without touching    *)
(* the reason.                                                               *)
C11_ReasonIffCancelled ==
  \A id \in DOMAIN orders :
     orders[id].cancellationReason.def <=> orders[id].status = "cancelled"

(* C15: payment verification with the expected signature and a local order   *)
(* id that names no existing order answers success, echoing the gateway      *)
(* order id and the payment id, and changes no order.                        *)
C15_MissingOrderStillVerified ==
  [][(/\ req'.op = "verify"
      /\ SignatureMatches(req')
      /\ req'.order_id # NoOrderId
      /\ req'.order_id \notin DOMAIN orders)
     => /\ res' = Ok
        /\ res'.code = 200
        /\ payload' = [success |-> TRUE,
                       orderId |-> req'.razorpay_order_id.val,
                       paymentId |-> req'.razorpay_payment_id.val]
        /\ orders' = orders
        /\ products' = products]_vars

\* a verified payment for an order id that is not the id of the one order
C15_Witness ==
  /\ req.op = "verify"
  /\ SignatureMatches(req)
  /\ Len(orders) = 1
  /\ req.order_id = 2
  /\ req.razorpay_order_id = Some("order_B")
  /\ res = Ok
  /\ payload = [success |-> TRUE, orderId |-> "order_B", paymentId |-> "pay_1"]
  /\ orders[1].status = "pending"
  /\ ~orders[1].paymentInfo.id.def

(* C18: an admin status update of an existing order sets the status to the   *)
(* requested value whatever the current one and changes nothing else: the    *)
(* stock of every product and the order's items, totalAmount, paymentInfo    *)
(* and cancellationReason stay, also when the new status is cancelled; for a *)
(* missing order it answers NotFound and changes nothing.                    *)
C18_StatusUpdateOnlySetsStatus ==
  [][req'.op = "status"
     => /\ products' = products
        /\ DOMAIN orders' = DOMAIN orders
        /\ IF req'.id \in DOMAIN orders
           THEN /\ res' = Ok
                /\ orders'[req'.id].status = req'.status
                /\ orders'[req'.id].items = orders[req'.id].items
                /\ orders'[req'.id].totalAmount = orders[req'.id].totalAmount
                /\ orders'[req'.id].paymentInfo = orders[req'.id].paymentInfo
                /\ orders'[req'.id].cancellationReason
                     = orders[req'.id].cancellationReason
                /\ orders'[req'.id].user = orders[req'.id].user
                /\ orders'[req'.id].restores = orders[req'.id].restores
                /\ \A id \in DOMAIN orders :
                      id # req'.id => orders'[id] = orders[id]
           ELSE /\ res' = NotFound
                /\ res'.code = 404
                /\ orders' = orders]_vars

\* the admin set a pending order to cancelled: no reason, no stock restored
C18_Witness ==
  /\ req.op = "status"
  /\ req.status = "cancelled"
  /\ res = Ok
  /\ orders[req.id].status = "cancelled"
  /\ ~orders[req.id].cancellationReason.def
  /\ orders[req.id].restores = 0
  /\ products["p1"].stock < MaxStock

\* the failure of a cancel request that applies first, Ok if none does
FirstCancelFailure(r) ==
  IF ~NonEmptyReason(r.reason) THEN ValidationError
  ELSE IF r.id \notin DOMAIN orders THEN NotFound
  ELSE IF ~AdminOrOwnerOf(r.user, r.id) THEN Forbidden
  ELSE IF orders[r.id].status \in Terminal THEN InvalidState
  ELSE Ok

(* C19: a cancel request that fails leaves every order and every product as  *)
(* it was, and reports the first failure that applies among ValidationError  *)
(* (empty or missing reason), NotFound (no such order), Forbidden (neither   *)
(* admin nor owner) and InvalidState (delivered or cancelled).               *)
C19_FirstCancelFailure ==
  [][req'.op = "cancel"
     => /\ res' = FirstCancelFailure(req')
        /\ res' # Ok => (orders' = orders /\ products' = products)]_vars

\* another user's cancel of a delivered order: Forbidden comes before
\* InvalidState
C19_Witness ==
  /\ req.op = "cancel"
  /\ NonEmptyReason(req.reason)
  /\ req.id \in DOMAIN orders
  /\ ~AdminOrOwnerOf(req.user, req.id)
  /\ orders[req.id].status = "delivered"
  /\ res = Forbidden


\* the prices of the items of an order, in the order of the items
ItemPrices(order) == [i \in DOMAIN order.items |-> order.items[i].price]

(* C12: no request that follows the creation of an order (cancel, status      *)
(* update, payment verification, product price update, product deletion, a   *)
(* further create) changes the totalAmount or the item prices of the order.  *)
C12_SnapshotsAreFixed ==
  [][\A id \in DOMAIN orders :
        /\ id \in DOMAIN orders'
        /\ orders'[id].totalAmount = orders[id].totalAmount
        /\ ItemPrices(orders'[id]) = ItemPrices(orders[id])]_vars

\* a price update after which an order holds one item at the price of its
\* creation, the product now having the other price, and one item whose
\* product was deleted
C12_Witness ==
  /\ req.op = "productUpdate"
  /\ res = Ok
  /\ \E id \in DOMAIN orders :
        /\ orders[id].totalAmount = 100 + 30 + CodFeeAmount
        /\ \E i, j \in DOMAIN orders[id].items :
              /\ products[orders[id].items[i].product].exists
              /\ products[orders[id].items[i].product].price
                   # orders[id].items[i].price
              /\ ~products[orders[id].items[j].product].exists

(* C14: an authorized cancel request for an order that is pending,           *)
(* processing or shipped succeeds when products of its items were deleted:   *)
(* every product that still exists gets the ordered quantity back, a deleted *)
(* product stays as it is, and the order is cancelled with the reason.       *)
C14_CancelSkipsDeletedProducts ==
  [][(AuthorizedCancel(req') /\ Cancellable(orders[req'.id].status))
     => LET id == req'.id IN
        /\ res' = Ok
        /\ orders'[id].status = "cancelled"
        /\ orders'[id].cancellationReason = req'.reason
        /\ \A p \in ProductIds :
              products'[p]
                = IF products[p].exists
                  THEN [products[p] EXCEPT
                          !.stock = @ + OrderedQuantity(orders[id].items, p)]
                  ELSE products[p]]_vars

\* a cancelled order whose first item names a deleted product and whose
\* second item was restored
C14_Witness ==
  /\ AuthorizedCancel(req)
  /\ res = Ok
  /\ LET order == orders[req.id] IN
     /\ order.status = "cancelled"
     /\ order.cancellationReason = req.reason
     /\ Len(order.items) = 2
     /\ ~products[order.items[1].product].exists
     /\ products[order.items[2].product].exists
     /\ products[order.items[2].product].stock = MaxStock
     /\ order.restores = 1


\* every stored file is the image of a product that exists
AssetsInUse ==
  \A f \in uploads :
     \E p \in ProductIds : products[p].exists /\ imageUrl[p] = UploadUrl(f)

ProductRequests == {"productCreate", "productUpdate", "productDelete"}

(* C20: a product create, update or delete request that succeeds when every  *)
(* stored file is the image of an existing product leaves every stored file  *)
(* the image of an existing product: the file of a replaced image (replaced  *)
(* by an uploaded file or by an image URL) and of a deleted product is       *)
(* deleted.                                                                  *)
C20_StoredAssetsAreInUse ==
  [][(AssetsInUse /\ req'.op \in ProductRequests /\ res' \in {Ok, Created})
     => AssetsInUse']_vars


\* slot s takes the step that saves the product of its create request
SavesForCreate(s) ==
  /\ inflight[s].op = "create"
  /\ inflight[s].pc = "save"
  /\ inflight'[s] # inflight[s]

(* C13: a create request was admitted on the stock it read, and the stock it *)
(* saves is the stock it read less its quantity, whatever another request    *)
(* saved since the read; so two requests that read the same stock are both   *)
(* served from it and the orders can hold more than was ever in stock.       *)
C13_CreateSavesOnItsRead ==
  [][\A s \in Slots :
        SavesForCreate(s)
        => LET item == inflight[s].items[inflight[s].i] IN
           /\ inflight[s].product.stock >= item.quantity
           /\ products'[item.product].stock
                = inflight[s].product.stock - item.quantity]_vars

\* two created orders, with no cancel request served or under way, that
\* hold more units of p1 than the stock p1 started with
C13_Witness ==
  /\ req.op = "create"
  /\ res = Created
  /\ \A s \in Slots : inflight[s] = Idle
  /\ Len(orders) = 2
  /\ \A id \in DOMAIN orders :
        orders[id].status = "pending" /\ orders[id].restores = 0
  /\ OrderedQuantity(orders[1].items, "p1")
       + OrderedQuantity(orders[2].items, "p1") > MaxStock

(* C16: the quantities of an order are restored at most once, however the    *)
(* steps of two cancel requests for the order interleave.                    *)
C16_RestoredAtMostOnce ==
  \A id \in DOMAIN orders : orders[id].restores <= 1

(* C17: the stock of every product is a non-negative integer in every state, *)
(* under every interleaving of the steps of create and cancel requests.      *)
C17_StockIsNatural ==
  \A p \in ProductIds : products[p].stock \in Nat

\* a create and a cancel request that have both read p1 and are both about
\* to save it, the stock of p1 being used up by the order under cancellation
C17_Witness ==
  /\ inflight[1].op = "create"
  /\ inflight[1].pc = "save"
  /\ inflight[1].items[inflight[1].i].product = "p1"
  /\ inflight[2].op = "cancel"
  /\ inflight[2].pc = "save"
  /\ inflight[2].order.items[inflight[2].i].product = "p1"
  /\ products["p1"].stock = 0

=============================================================================
